---------------------------- MODULE Spec2Model ----------------------------
(***************************************************************************)
(* Worker assignment lifecycle of Backend/services/                        *)
(* worker_assignment_service.go: AcceptAssignment, RejectAssignment,       *)
(* StartAssignment and CompleteAssignment running as concurrent request    *)
(* handlers over the assignment and booking tables.                        *)
(*                                                                         *)
(* A handler is a sequence of repository calls.  Every repository call is  *)
(* one atomic step; the code between two repository calls touches only the *)
(* handler's own locals and is folded into the step that precedes it.      *)
(*                                                                         *)
(* The module also holds the conversation monitor socket of the web app,   *)
(* web-app/src/services/conversationWebSocketService.ts: connect,          *)
(* disconnect, the reconnect timer and the callbacks of its sockets, each  *)
(* of which runs to completion on the event loop and is one atomic step.   *)
(***************************************************************************)
EXTENDS Integers, Sequences, FiniteSets, TLC

(* ---- bounds ---- *)
\* number of request handlers that can be in flight at the same time
NumCalls == 2
\* the clock (time.Now) runs from 1 to MaxClock; one unit is half a minute
MaxClock == 2
\* number of WebSockets that can exist (not yet closed) at the same time
MaxSockets == 2
\* number of reconnect timers that can be pending at the same time, and of
\* ping intervals that can be active at the same time
MaxTimers == 2

VARIABLES
  clock,      \* time.Now(), in half minutes
  asg,        \* worker_assignments table: id -> row
  bk,         \* bookings table: id -> row
  stats,      \* workers table: worker -> completed jobs and earnings
  tracking,   \* whether was.locationTrackingService is non-nil
  calls,      \* the request handlers: slot -> locals and position
  \* ConversationWebSocketService
  ws,                 \* this.ws: a socket, or NoSocket for null
  reconnectTimeout,   \* this.reconnectTimeout: the state of the timer it
                      \* refers to, or NoTimer for null
  pingInterval,       \* this.pingInterval: the state of the interval it
                      \* refers to, or NoTimer for null
  reconnectAttempts,  \* this.reconnectAttempts
  token,              \* this.token
  isConnecting,       \* this.isConnecting
  sockets,            \* the WebSockets that exist: slot -> socket
  lostTimeouts,       \* pending reconnect timers no field refers to
  lostIntervals       \* active ping intervals no field refers to

wsVars ==
  <<ws, reconnectTimeout, pingInterval, reconnectAttempts, token,
    isConnecting, sockets, lostTimeouts, lostIntervals>>
coreVars == <<clock, asg, bk, stats, tracking, calls>>
vars == <<clock, asg, bk, stats, tracking, calls, wsVars>>

(* ---- values ---- *)
\* a nil pointer (*time.Time, *int, *float64) and a set one
None == <<>>
Some(x) == <<x>>
IsSet(p) == p # None

Slots == 1..NumCalls
\* The rows of worker_assignments.  A handler reads and writes only the row
\* it is called for and that row's booking, so one row shows every
\* behaviour of the handlers on an assignment.
AssignmentIDs == {1}
\* an id no row of worker_assignments has
MissingID == 2
Workers == {"w1", "w2"}
\* every assignment of the model is assigned to the same worker
OwnerOf(id) == "w1"
\* the booking of an assignment
BookingOf(id) == id

AssignmentStatusAssigned == "assigned"
AssignmentStatusAccepted == "accepted"
AssignmentStatusRejected == "rejected"
AssignmentStatusInProgress == "in_progress"
AssignmentStatusCompleted == "completed"
BookingStatusPending == "pending"
BookingStatusConfirmed == "confirmed"
BookingStatusInProgress == "in_progress"
BookingStatusCompleted == "completed"

Ops == {"accept", "reject", "start", "complete"}
NotesIn == {"note"}
ReasonsIn == {"busy"}
\* phone numbers a user or a booking may hold ("" is no number)
Phones == {"", "9000000001"}
\* filters.Status of a list request: no filter, or one status
StatusFilters == {None, Some(AssignmentStatusAssigned)}

(* ---- errors the handlers return ---- *)
ErrNotFound == "assignment not found"
ErrUnauthorized == "unauthorized access to assignment"
ErrStatus(op) ==
  CASE op = "accept" -> "assignment cannot be accepted in current status"
    [] op = "reject" -> "assignment cannot be rejected in current status"
    [] op = "start" -> "assignment cannot be started in current status"
    [] op = "complete" -> "assignment cannot be completed in current status"
ErrUpdateAssignment(op) ==
  CASE op = "accept" -> "failed to accept assignment"
    [] op = "reject" -> "failed to reject assignment"
    [] op = "start" -> "failed to start assignment"
    [] op = "complete" -> "failed to complete assignment"
ErrBooking == "failed to update booking status"
ErrGetAssignments == "failed to get worker assignments"
\* err == nil
NoError == "nil"

(* ---- rows ---- *)
NewAssignment(id) ==
  [workerID |-> OwnerOf(id), bookingID |-> BookingOf(id),
   status |-> AssignmentStatusAssigned,
   acceptedAt |-> None, rejectedAt |-> None, startedAt |-> None,
   completedAt |-> None,
   acceptanceNotes |-> "", rejectionReason |-> "", rejectionNotes |-> ""]

\* q, p: quote amount and service price; phone: the phone of the booking's
\* user; contact: the booking's contact phone
NewBooking(q, p, phone, contact) ==
  [status |-> BookingStatusPending,
   actualStartTime |-> None, actualEndTime |-> None,
   actualDurationMinutes |-> None,
   quoteAmount |-> q, servicePrice |-> p, paymentStatus |-> "pending",
   contactPhone |-> contact,
   user |-> [name |-> "u1", phone |-> phone]]

NoRow == [status |-> "none"]

\* A request handler: where it is (pc), its arguments (op, id, worker,
\* notes, reason), its locals (now, a: the assignment, b: the booking), what
\* it returned (err, ret), the side effects it invoked (fx), those that
\* failed, the earnings it passed to IncrementCompletedJob (amount) and
\* those credited (earned).  before, savedA and savedB record the assignment
\* as GetByID returned it and which of the two Update calls succeeded.
\* awaited names the side effects whose call had returned when the handler
\* returned, times how many times each side effect was invoked.  A
\* list request has its status filter (filter), the assignments the
\* repository returned (loaded) and the responses it returned (list).
IdleCall ==
  [pc |-> "idle", op |-> "none", id |-> 0, worker |-> "none",
   notes |-> "", reason |-> "",
   now |-> 0, a |-> NoRow, b |-> NoRow, err |-> NoError, ret |-> NoRow,
   fx |-> {}, failed |-> {}, awaited |-> {}, times |-> <<>>,
   amount |-> None, earned |-> None,
   before |-> NoRow, savedA |-> FALSE, savedB |-> FALSE,
   filter |-> None, loaded |-> <<>>, list |-> <<>>]


(* ---- the state checks and mutations of the four handlers ---- *)
\* the status a handler requires before it proceeds
RequiredStatus(op) ==
  CASE op = "accept" -> AssignmentStatusAssigned
    [] op = "reject" -> AssignmentStatusAssigned
    [] op = "start" -> AssignmentStatusAccepted
    [] op = "complete" -> AssignmentStatusInProgress

\* (mutant) the status check left out
CheckAssignmentNoStatus(op, row, workerID) ==
  IF row.workerID # workerID THEN ErrUnauthorized ELSE NoError

\* (mutant) the ownership check left out
CheckAssignmentNoOwner(op, row, workerID) ==
  IF row.status # RequiredStatus(op) THEN ErrStatus(op) ELSE NoError

\* (mutant) the status check made before the ownership check
CheckAssignmentStatusFirst(op, row, workerID) ==
  IF row.status # RequiredStatus(op) THEN ErrStatus(op)
  ELSE IF row.workerID # workerID THEN ErrUnauthorized
  ELSE NoError

\* (mutant) the error for another worker's assignment says whether the
\* assignment is in the status the operation requires
CheckAssignmentTellsStatus(op, row, workerID) ==
  IF row.workerID # workerID
  THEN IF row.status # RequiredStatus(op) THEN ErrStatus(op) ELSE ErrUnauthorized
  ELSE IF row.status # RequiredStatus(op) THEN ErrStatus(op)
  ELSE NoError

\* the two precondition checks, in the order the handlers make them
CheckAssignment(op, row, workerID) ==
  IF row.workerID # workerID THEN ErrUnauthorized
  ELSE IF row.status # RequiredStatus(op) THEN ErrStatus(op)
  ELSE NoError

\* (mutant) StartAssignment sets CompletedAt where it should set StartedAt
MutateAssignmentStartSlip(op, row, now, notes, reason) ==
  CASE op = "accept" ->
         [row EXCEPT !.status = AssignmentStatusAccepted,
                     !.acceptedAt = Some(now),
                     !.acceptanceNotes = notes]
    [] op = "reject" ->
         [row EXCEPT !.status = AssignmentStatusRejected,
                     !.rejectedAt = Some(now),
                     !.rejectionReason = reason,
                     !.rejectionNotes = notes]
    [] op = "start" ->
         [row EXCEPT !.status = AssignmentStatusInProgress,
                     !.completedAt = Some(now)]
    [] op = "complete" ->
         [row EXCEPT !.status = AssignmentStatusCompleted,
                     !.completedAt = Some(now)]

\* (mutant) AcceptAssignment drops the notes
MutateAssignmentDropNotes(op, row, now, notes, reason) ==
  CASE op = "accept" ->
         [row EXCEPT !.status = AssignmentStatusAccepted,
                     !.acceptedAt = Some(now)]
    [] op = "reject" ->
         [row EXCEPT !.status = AssignmentStatusRejected,
                     !.rejectedAt = Some(now),
                     !.rejectionReason = reason,
                     !.rejectionNotes = notes]
    [] op = "start" ->
         [row EXCEPT !.status = AssignmentStatusInProgress,
                     !.startedAt = Some(now)]
    [] op = "complete" ->
         [row EXCEPT !.status = AssignmentStatusCompleted,
                     !.completedAt = Some(now)]

\* (mutant) RejectAssignment stores the reason as the notes and the notes as
\* the reason
MutateAssignmentSwapReason(op, row, now, notes, reason) ==
  CASE op = "accept" ->
         [row EXCEPT !.status = AssignmentStatusAccepted,
                     !.acceptedAt = Some(now),
                     !.acceptanceNotes = notes]
    [] op = "reject" ->
         [row EXCEPT !.status = AssignmentStatusRejected,
                     !.rejectedAt = Some(now),
                     !.rejectionReason = notes,
                     !.rejectionNotes = reason]
    [] op = "start" ->
         [row EXCEPT !.status = AssignmentStatusInProgress,
                     !.startedAt = Some(now)]
    [] op = "complete" ->
         [row EXCEPT !.status = AssignmentStatusCompleted,
                     !.completedAt = Some(now)]

\* "Update assignment": the handler's changes to the assignment it loaded
MutateAssignment(op, row, now, notes, reason) ==
  CASE op = "accept" ->
         [row EXCEPT !.status = AssignmentStatusAccepted,
                     !.acceptedAt = Some(now),
                     !.acceptanceNotes = notes]
    [] op = "reject" ->
         [row EXCEPT !.status = AssignmentStatusRejected,
                     !.rejectedAt = Some(now),
                     !.rejectionReason = reason,
                     !.rejectionNotes = notes]
    [] op = "start" ->
         [row EXCEPT !.status = AssignmentStatusInProgress,
                     !.startedAt = Some(now)]
    [] op = "complete" ->
         [row EXCEPT !.status = AssignmentStatusCompleted,
                     !.completedAt = Some(now)]

\* clock units per minute
TicksPerMinute == 2
\* int(d.Minutes()): the minutes of a duration, truncated toward zero
Minutes(d) ==
  IF d >= 0 THEN d \div TicksPerMinute ELSE -((-d) \div TicksPerMinute)

\* (mutant) StartAssignment leaves the booking's actual start time unset
MutateBookingNoStartTime(op, row, now) ==
  CASE op = "accept" -> [row EXCEPT !.status = BookingStatusConfirmed]
    [] op = "reject" -> [row EXCEPT !.status = BookingStatusConfirmed]
    [] op = "start" ->
         [row EXCEPT !.status = BookingStatusInProgress]
    [] op = "complete" ->
         [row EXCEPT !.status = BookingStatusCompleted,
                     !.actualEndTime = Some(now),
                     !.actualDurationMinutes =
                        IF IsSet(row.actualStartTime)
                        THEN Some(Minutes(now - row.actualStartTime[1]))
                        ELSE @]

\* (mutant) CompleteAssignment leaves the booking's actual end time unset
MutateBookingNoEndTime(op, row, now) ==
  CASE op = "accept" -> [row EXCEPT !.status = BookingStatusConfirmed]
    [] op = "reject" -> [row EXCEPT !.status = BookingStatusConfirmed]
    [] op = "start" ->
         [row EXCEPT !.status = BookingStatusInProgress,
                     !.actualStartTime = Some(now)]
    [] op = "complete" ->
         [row EXCEPT !.status = BookingStatusCompleted,
                     !.actualDurationMinutes =
                        IF IsSet(row.actualStartTime)
                        THEN Some(Minutes(now - row.actualStartTime[1]))
                        ELSE @]

\* (mutant) CompleteAssignment also marks the booking as paid
MutateBookingMarksPaid(op, row, now) ==
  CASE op = "accept" -> [row EXCEPT !.status = BookingStatusConfirmed]
    [] op = "reject" -> [row EXCEPT !.status = BookingStatusConfirmed]
    [] op = "start" ->
         [row EXCEPT !.status = BookingStatusInProgress,
                     !.actualStartTime = Some(now)]
    [] op = "complete" ->
         [row EXCEPT !.status = BookingStatusCompleted,
                     !.paymentStatus = "completed",
                     !.actualEndTime = Some(now),
                     !.actualDurationMinutes =
                        IF IsSet(row.actualStartTime)
                        THEN Some(Minutes(now - row.actualStartTime[1]))
                        ELSE @]

\* (mutant) CompleteAssignment sets a duration of 0 when the booking has no
\* actual start time
MutateBookingZeroDuration(op, row, now) ==
  CASE op = "accept" -> [row EXCEPT !.status = BookingStatusConfirmed]
    [] op = "reject" -> [row EXCEPT !.status = BookingStatusConfirmed]
    [] op = "start" ->
         [row EXCEPT !.status = BookingStatusInProgress,
                     !.actualStartTime = Some(now)]
    [] op = "complete" ->
         [row EXCEPT !.status = BookingStatusCompleted,
                     !.actualEndTime = Some(now),
                     !.actualDurationMinutes =
                        IF IsSet(row.actualStartTime)
                        THEN Some(Minutes(now - row.actualStartTime[1]))
                        ELSE Some(0)]

\* "Update booking status": the handler's changes to the booking it loaded
MutateBooking(op, row, now) ==
  CASE op = "accept" -> [row EXCEPT !.status = BookingStatusConfirmed]
    [] op = "reject" -> [row EXCEPT !.status = BookingStatusConfirmed]
    [] op = "start" ->
         [row EXCEPT !.status = BookingStatusInProgress,
                     !.actualStartTime = Some(now)]
    [] op = "complete" ->
         [row EXCEPT !.status = BookingStatusCompleted,
                     !.actualEndTime = Some(now),
                     !.actualDurationMinutes =
                        IF IsSet(row.actualStartTime)
                        THEN Some(Minutes(now - row.actualStartTime[1]))
                        ELSE @]

\* (mutant) the service price taken before the quote amount
EarningsPriceFirst(b) ==
  IF IsSet(b.servicePrice) THEN b.servicePrice[1]
  ELSE IF IsSet(b.quoteAmount) THEN b.quoteAmount[1]
  ELSE 0

\* "Calculate earnings from booking"
Earnings(b) ==
  IF IsSet(b.quoteAmount) THEN b.quoteAmount[1]
  ELSE IF IsSet(b.servicePrice) THEN b.servicePrice[1]
  ELSE 0

(* ---- side effects ---- *)
(* What a handler does after the booking update: the calls it makes and    *)
(* waits for, each of which may fail, and the goroutines it starts.  An    *)
(* outcome names the side effects invoked (fx), those that returned an     *)
(* error (failed) and the earnings credited to the worker, if any.         *)
Outcome(fx, failed, earned) == [fx |-> fx, failed |-> failed, earned |-> earned]

AcceptSideEffects ==
  { Outcome({"chat_create", "mask_enable", "notify_assigned", "notify_accepted"},
            f, None) : f \in SUBSET {"chat_create"} }

\* (mutant) RejectAssignment waits for the call masking to be disabled, and
\* the call may fail
RejectSideEffectsAwaitsUnmask ==
  { Outcome({"mask_disable", "notify_rejected_inapp", "notify_rejected"},
            f, None) : f \in SUBSET {"mask_disable"} }

RejectSideEffects ==
  { Outcome({"mask_disable", "notify_rejected_inapp", "notify_rejected"},
            {}, None) }

\* (mutant) StartAssignment counts the job as completed, with no earnings
StartSideEffectsCountsJob(trk) ==
  IF trk
  THEN { Outcome({"track_start", "notify_started"}, f, Some(0)) :
           f \in SUBSET {"track_start"} }
  ELSE { Outcome({"notify_started"}, {}, Some(0)) }

\* (mutant) StartAssignment does not notify the user
StartSideEffectsNoNotify(trk) ==
  IF trk
  THEN { Outcome({"track_start"}, f, None) : f \in SUBSET {"track_start"} }
  ELSE { Outcome({}, {}, None) }

StartSideEffects(trk) ==
  IF trk
  THEN { Outcome({"track_start", "notify_started"}, f, None) :
           f \in SUBSET {"track_start"} }
  ELSE { Outcome({"notify_started"}, {}, None) }

\* (mutant) CompleteAssignment passes no earnings to the increment
CompleteSideEffectsNoEarnings(b, trk) ==
  LET stop == IF trk THEN {"track_stop"} ELSE {}
      rest == {"mask_disable", "chat_close", "notify_completed"} \cup stop
      noWorker ==
        { Outcome(rest \cup {"worker_lookup"}, f \cup {"worker_lookup"}, None) :
            f \in SUBSET ({"chat_close"} \cup stop) }
      noIncrement ==
        { Outcome(rest \cup {"worker_lookup", "stats_increment"},
                  f \cup {"stats_increment"}, None) :
            f \in SUBSET ({"chat_close"} \cup stop) }
      incremented ==
        { Outcome(rest \cup {"worker_lookup", "stats_increment"},
                  f, Some(0)) :
            f \in SUBSET ({"chat_close"} \cup stop) }
  IN  noWorker \cup noIncrement \cup incremented

\* (mutant) CompleteAssignment gives up its remaining side effects when the
\* chat room cannot be closed
CompleteSideEffectsStopAtChat(b, trk) ==
  LET stop == IF trk THEN {"track_stop"} ELSE {}
      rest == {"mask_disable", "chat_close", "notify_completed"} \cup stop
      cut(o) == IF "chat_close" \in o.failed
                THEN Outcome(o.fx \ ({"notify_completed"} \cup stop),
                             o.failed \ stop, o.earned)
                ELSE o
      noWorker ==
        { Outcome(rest \cup {"worker_lookup"}, f \cup {"worker_lookup"}, None) :
            f \in SUBSET ({"chat_close"} \cup stop) }
      noIncrement ==
        { Outcome(rest \cup {"worker_lookup", "stats_increment"},
                  f \cup {"stats_increment"}, None) :
            f \in SUBSET ({"chat_close"} \cup stop) }
      incremented ==
        { Outcome(rest \cup {"worker_lookup", "stats_increment"},
                  f, Some(Earnings(b))) :
            f \in SUBSET ({"chat_close"} \cup stop) }
  IN  {cut(o) : o \in noWorker \cup noIncrement \cup incremented}

CompleteSideEffects(b, trk) ==
  LET stop == IF trk THEN {"track_stop"} ELSE {}
      rest == {"mask_disable", "chat_close", "notify_completed"} \cup stop
      \* workerRepo.GetByUserID failed: no increment
      noWorker ==
        { Outcome(rest \cup {"worker_lookup"}, f \cup {"worker_lookup"}, None) :
            f \in SUBSET ({"chat_close"} \cup stop) }
      \* IncrementCompletedJob failed
      noIncrement ==
        { Outcome(rest \cup {"worker_lookup", "stats_increment"},
                  f \cup {"stats_increment"}, None) :
            f \in SUBSET ({"chat_close"} \cup stop) }
      incremented ==
        { Outcome(rest \cup {"worker_lookup", "stats_increment"},
                  f, Some(Earnings(b))) :
            f \in SUBSET ({"chat_close"} \cup stop) }
  IN  noWorker \cup noIncrement \cup incremented

\* the side effects a handler calls and waits for; the others run in
\* goroutines the handler starts and never joins
CalledInline ==
  {"chat_create", "track_start", "worker_lookup", "stats_increment",
   "chat_close", "track_stop"}

SideEffects(op, b, trk) ==
  CASE op = "accept" -> AcceptSideEffects
    [] op = "reject" -> RejectSideEffects
    [] op = "start" -> StartSideEffects(trk)
    [] op = "complete" -> CompleteSideEffects(b, trk)

(* ---- call masking ---- *)
\* callMaskingService: whether calls between customer and worker are masked,
\* by booking
MaskStates == [{BookingOf(id) : id \in AssignmentIDs} -> BOOLEAN]
EnableCallMasking(mask, bookingID) == [mask EXCEPT ![bookingID] = TRUE]
DisableCallMasking(mask, bookingID) == [mask EXCEPT ![bookingID] = FALSE]

(* ---- repositories ---- *)
\* workerAssignmentRepo.Update and bookingRepo.Update write the whole row
SaveRow(table, id, row) == [table EXCEPT ![id] = row]

\* workerRepo.IncrementCompletedJob: one atomic update of the worker's row
IncrementCompletedJob(table, w, earnings) ==
  [table EXCEPT ![w] = [jobs |-> @.jobs + 1, earnings |-> @.earnings + earnings]]

(* ---- environments ---- *)
(* What the callers and the infrastructure may do in a behaviour: the ids  *)
(* and worker ids requests carry, whether a repository call may return an  *)
(* error, whether a side effect may fail, and how many handlers may be in  *)
(* flight at once.                                                         *)
Env(ids, workers, dbFails, fxFails, inFlight) ==
  [ids |-> ids, workers |-> workers, dbFails |-> dbFails, fxFails |-> fxFails,
   inFlight |-> inFlight]

(* ---- ConversationWebSocketService: values and fields ---- *)
maxReconnectAttempts == 5
\* the token connect is called with
Tokens == {"token"}
SocketSlots == 1..MaxSockets
\* null in this.ws
NoSocket == 0
\* null in this.reconnectTimeout and this.pingInterval; a timer that is
\* pending, one that has fired, and an interval that is active
NoTimer == "null"
Pending == "pending"
Fired == "fired"
Active == "active"
\* WebSocket.readyState
CONNECTING == "CONNECTING"
OPEN == "OPEN"
CLOSING == "CLOSING"
\* the code of a close event: 1000 for a normal closure, 1006 for a
\* connection that failed or was lost
CloseNormal == 1000
CloseAbnormal == 1006
CloseCodes == {CloseNormal, CloseAbnormal}
\* new WebSocket(wsUrl); failed: the connection was failed and will close
\* with an error event and an abnormal code
NewWebSocket == [readyState |-> CONNECTING, failed |-> FALSE]
\* a slot with no socket: none was created for it, or the one it held has
\* closed (after its close event nothing refers to a socket any more)
NoWebSocket == [readyState |-> "none", failed |-> FALSE]

\* the field initialisers of the class
WsInit ==
  /\ ws = NoSocket
  /\ reconnectTimeout = NoTimer
  /\ pingInterval = NoTimer
  /\ reconnectAttempts = 0
  /\ token = None
  /\ isConnecting = FALSE
  /\ sockets = [s \in SocketSlots |-> NoWebSocket]
  /\ lostTimeouts = 0
  /\ lostIntervals = 0

(* ---- initial state ---- *)
\* quote amount and service price of the bookings
PriceCases == { <<Some(120), Some(80)>>, <<None, Some(80)>>, <<None, None>> }
\* user phone and contact phone of the bookings
PhoneCases == Phones \X Phones
OnePhoneCase == { <<"9000000001", "9000000001">> }

InitWith(prices, phones, trackings, time) ==
  /\ clock = time
  /\ asg = [id \in AssignmentIDs |-> NewAssignment(id)]
  /\ \E qp \in prices, ph \in phones :
       bk = [id \in AssignmentIDs |-> NewBooking(qp[1], qp[2], ph[1], ph[2])]
  /\ stats = [w \in Workers |-> [jobs |-> 0, earnings |-> 0]]
  /\ tracking \in trackings
  /\ calls = [c \in Slots |-> IdleCall]
  /\ WsInit

(* ---- the steps of a handler ---- *)
Finish(c, e) ==
  calls' = [calls EXCEPT ![c].pc = "done", ![c].err = e]

Busy == {c \in Slots : calls[c].pc # "idle"}

\* (mutant) an id that cannot be loaded is answered as unauthorized
BeginMissingUnauthorized(c, op, id, workerID, notes, reason) ==
  /\ calls[c].pc = "idle"
  /\ LET call == [IdleCall EXCEPT !.op = op, !.id = id, !.worker = workerID,
                                  !.notes = notes, !.reason = reason]
     IN  IF id \notin DOMAIN asg
         THEN calls' = [calls EXCEPT ![c] = [call EXCEPT !.pc = "done", !.err = ErrUnauthorized]]
         ELSE LET e == CheckAssignment(op, asg[id], workerID)
              IN  IF e # NoError
                  THEN calls' = [calls EXCEPT ![c] = [call EXCEPT !.pc = "done", !.err = e]]
                  ELSE calls' = [calls EXCEPT ![c] =
                         [call EXCEPT !.pc = "loaded", !.now = clock,
                            !.before = asg[id],
                            !.a = MutateAssignment(op, asg[id], clock, notes, reason)]]
  /\ UNCHANGED <<clock, asg, bk, stats, tracking, wsVars>>

\* GetByID of the assignment, the ownership check, the status check and the
\* changes to the loaded assignment
Begin(c, op, id, workerID, notes, reason) ==
  /\ calls[c].pc = "idle"
  /\ LET call == [IdleCall EXCEPT !.op = op, !.id = id, !.worker = workerID,
                                  !.notes = notes, !.reason = reason]
     IN  IF id \notin DOMAIN asg
         THEN calls' = [calls EXCEPT ![c] = [call EXCEPT !.pc = "done", !.err = ErrNotFound]]
         ELSE LET e == CheckAssignment(op, asg[id], workerID)
              IN  IF e # NoError
                  THEN calls' = [calls EXCEPT ![c] = [call EXCEPT !.pc = "done", !.err = e]]
                  ELSE calls' = [calls EXCEPT ![c] =
                         [call EXCEPT !.pc = "loaded", !.now = clock,
                            !.before = asg[id],
                            !.a = MutateAssignment(op, asg[id], clock, notes, reason)]]
  /\ UNCHANGED <<clock, asg, bk, stats, tracking, wsVars>>

\* (mutant) AcceptAssignment creates the chat room right after the
\* assignment update, before the booking is loaded and updated
UpdateAssignmentEager(c, op, E) ==
  /\ calls[c].pc = "loaded"
  /\ calls[c].op = op
  /\ \/ /\ asg' = SaveRow(asg, calls[c].id, calls[c].a)
        /\ calls' = [calls EXCEPT ![c].pc = "wroteA", ![c].savedA = TRUE,
                       ![c].fx = IF op = "accept" THEN {"chat_create"} ELSE {}]
     \/ /\ E.dbFails
        /\ Finish(c, ErrUpdateAssignment(op))
        /\ UNCHANGED asg
  /\ UNCHANGED <<clock, bk, stats, tracking, wsVars>>

\* workerAssignmentRepo.Update(assignment)
UpdateAssignment(c, op, E) ==
  /\ calls[c].pc = "loaded"
  /\ calls[c].op = op
  /\ \/ /\ asg' = SaveRow(asg, calls[c].id, calls[c].a)
        /\ calls' = [calls EXCEPT ![c].pc = "wroteA", ![c].savedA = TRUE]
     \/ /\ E.dbFails
        /\ Finish(c, ErrUpdateAssignment(op))
        /\ UNCHANGED asg
  /\ UNCHANGED <<clock, bk, stats, tracking, wsVars>>

\* bookingRepo.GetByID(assignment.BookingID) and the changes to the booking
LoadBooking(c, op, E) ==
  /\ calls[c].pc = "wroteA"
  /\ calls[c].op = op
  /\ \/ calls' = [calls EXCEPT ![c].pc = "loadedB",
                    ![c].b = MutateBooking(op, bk[calls[c].a.bookingID], calls[c].now)]
     \/ /\ E.dbFails
        /\ Finish(c, ErrBooking)
  /\ UNCHANGED <<clock, asg, bk, stats, tracking, wsVars>>

\* (mutant) CompleteAssignment disables call masking before it updates the
\* booking
UpdateBookingUnmasksFirst(c, op, E) ==
  /\ calls[c].pc = "loadedB"
  /\ calls[c].op = op
  /\ LET early == IF op = "complete" THEN {"mask_disable"} ELSE {}
     IN  \/ /\ bk' = SaveRow(bk, calls[c].a.bookingID, calls[c].b)
            /\ calls' = [calls EXCEPT ![c].pc = "committed", ![c].savedB = TRUE,
                                      ![c].fx = early]
         \/ /\ E.dbFails
            /\ calls' = [calls EXCEPT ![c].pc = "done", ![c].err = ErrBooking,
                                      ![c].fx = early]
            /\ UNCHANGED bk
  /\ UNCHANGED <<clock, asg, stats, tracking, wsVars>>

\* bookingRepo.Update(booking)
UpdateBooking(c, op, E) ==
  /\ calls[c].pc = "loadedB"
  /\ calls[c].op = op
  /\ \/ /\ bk' = SaveRow(bk, calls[c].a.bookingID, calls[c].b)
        /\ calls' = [calls EXCEPT ![c].pc = "committed", ![c].savedB = TRUE]
     \/ /\ E.dbFails
        /\ Finish(c, ErrBooking)
        /\ UNCHANGED bk
  /\ UNCHANGED <<clock, asg, stats, tracking, wsVars>>

\* (mutant) a failed side effect fails the request
DispatchStrict(c, op, E) ==
  /\ calls[c].pc = "committed"
  /\ calls[c].op = op
  /\ \E o \in SideEffects(op, calls[c].b, tracking) :
       /\ E.fxFails \/ o.failed = {}
       /\ calls' = [calls EXCEPT ![c].pc = "done",
                      ![c].ret = IF o.failed = {} THEN calls[c].a ELSE NoRow,
                      ![c].err = IF o.failed = {} THEN NoError ELSE "side effect failed",
                      ![c].fx = o.fx, ![c].failed = o.failed,
                      ![c].awaited = o.fx \cap CalledInline,
                      ![c].times = [e \in o.fx |-> 1],
                      ![c].amount = IF "stats_increment" \in o.fx
                                    THEN Some(Earnings(calls[c].b)) ELSE None,
                      ![c].earned = o.earned]
       /\ stats' = IF IsSet(o.earned)
                   THEN IncrementCompletedJob(stats, calls[c].a.workerID, o.earned[1])
                   ELSE stats
  /\ UNCHANGED <<clock, asg, bk, tracking, wsVars>>

\* (mutant) a side effect that failed is tried once more
DispatchRetries(c, op, E) ==
  /\ calls[c].pc = "committed"
  /\ calls[c].op = op
  /\ \E o \in SideEffects(op, calls[c].b, tracking) :
       /\ E.fxFails \/ o.failed = {}
       /\ calls' = [calls EXCEPT ![c].pc = "done", ![c].ret = calls[c].a,
                      ![c].fx = o.fx, ![c].failed = o.failed,
                      ![c].awaited = o.fx \cap CalledInline,
                      ![c].times = [e \in o.fx |-> IF e \in o.failed THEN 2 ELSE 1],
                      ![c].amount = IF "stats_increment" \in o.fx
                                    THEN Some(Earnings(calls[c].b)) ELSE None,
                      ![c].earned = o.earned]
       /\ stats' = IF IsSet(o.earned)
                   THEN IncrementCompletedJob(stats, calls[c].a.workerID, o.earned[1])
                   ELSE stats
  /\ UNCHANGED <<clock, asg, bk, tracking, wsVars>>

\* the side effects and "return assignment, nil"
Dispatch(c, op, E) ==
  /\ calls[c].pc = "committed"
  /\ calls[c].op = op
  /\ \E o \in SideEffects(op, calls[c].b, tracking) :
       /\ E.fxFails \/ o.failed = {}
       /\ calls' = [calls EXCEPT ![c].pc = "done", ![c].ret = calls[c].a,
                      ![c].fx = o.fx, ![c].failed = o.failed,
                      ![c].awaited = o.fx \cap CalledInline,
                      ![c].times = [e \in o.fx |-> 1],
                      ![c].amount = IF "stats_increment" \in o.fx
                                    THEN Some(Earnings(calls[c].b)) ELSE None,
                      ![c].earned = o.earned]
       /\ stats' = IF IsSet(o.earned)
                   THEN IncrementCompletedJob(stats, calls[c].a.workerID, o.earned[1])
                   ELSE stats
  /\ UNCHANGED <<clock, asg, bk, tracking, wsVars>>

\* a request arrives
Receive(c, op, E) ==
  /\ Cardinality(Busy) < E.inFlight
  /\ \E id \in E.ids, w \in E.workers, n \in NotesIn, r \in ReasonsIn :
       Begin(c, op, id, w, n, r)

Handler(c, op, E) ==
  \/ Receive(c, op, E)
  \/ UpdateAssignment(c, op, E)
  \/ LoadBooking(c, op, E)
  \/ UpdateBooking(c, op, E)
  \/ Dispatch(c, op, E)

AcceptAssignment(c, E) == Handler(c, "accept", E)
RejectAssignment(c, E) == Handler(c, "reject", E)
StartAssignment(c, E) == Handler(c, "start", E)
CompleteAssignment(c, E) == Handler(c, "complete", E)

\* the caller has the response: the slot serves the next request
Respond(c) ==
  /\ calls[c].pc = "done"
  /\ calls' = [calls EXCEPT ![c] = IdleCall]
  /\ UNCHANGED <<clock, asg, bk, stats, tracking, wsVars>>

\* time passes
Tick ==
  /\ clock < MaxClock
  /\ clock' = clock + 1
  /\ UNCHANGED <<asg, bk, stats, tracking, calls, wsVars>>

(* ---- the read operations ---- *)
\* workerAssignmentRepo.GetWorkerAssignments: the worker's assignments that
\* pass the status filter, each with its booking and the booking's user
\* loaded, newest first
LoadAssignment(id) ==
  [id |-> id,
   workerID |-> asg[id].workerID, bookingID |-> asg[id].bookingID,
   status |-> asg[id].status,
   acceptedAt |-> asg[id].acceptedAt, rejectedAt |-> asg[id].rejectedAt,
   startedAt |-> asg[id].startedAt, completedAt |-> asg[id].completedAt,
   acceptanceNotes |-> asg[id].acceptanceNotes,
   rejectionReason |-> asg[id].rejectionReason,
   rejectionNotes |-> asg[id].rejectionNotes,
   booking |-> bk[asg[id].bookingID]]

RepoGetWorkerAssignments(workerID, filter) ==
  LET found == {id \in DOMAIN asg :
                  /\ asg[id].workerID = workerID
                  /\ (IsSet(filter) => asg[id].status = filter[1])}
      order == CHOOSE s \in [1..Cardinality(found) -> found] :
                 \A i, j \in 1..Cardinality(found) : i < j => s[i] > s[j]
  IN  [i \in 1..Cardinality(found) |-> LoadAssignment(order[i])]

\* the response a worker gets for one of their assignments
convertToPrivacyProtectedResponse(assignment) ==
  [id |-> assignment.id,
   bookingID |-> assignment.bookingID,
   workerID |-> assignment.workerID,
   status |-> assignment.status,
   acceptedAt |-> assignment.acceptedAt,
   rejectedAt |-> assignment.rejectedAt,
   startedAt |-> assignment.startedAt,
   completedAt |-> assignment.completedAt,
   acceptanceNotes |-> assignment.acceptanceNotes,
   rejectionNotes |-> assignment.rejectionNotes,
   rejectionReason |-> assignment.rejectionReason,
   booking |->
     [status |-> assignment.booking.status,
      paymentStatus |-> assignment.booking.paymentStatus,
      actualStartTime |-> assignment.booking.actualStartTime,
      actualEndTime |-> assignment.booking.actualEndTime,
      actualDurationMinutes |-> assignment.booking.actualDurationMinutes,
      contactPhone |-> assignment.booking.contactPhone,
      quoteAmount |-> assignment.booking.quoteAmount,
      \* the user without its phone
      user |-> [name |-> assignment.booking.user.name,
                subscription |-> None, notificationSettings |-> None],
      servicePrice |-> assignment.booking.servicePrice]]

\* the whole of GetWorkerAssignments: one repository call, then the
\* conversion of every assignment it returned
GetWorkerAssignments(c, E) ==
  /\ calls[c].pc = "idle"
  /\ Cardinality(Busy) < E.inFlight
  /\ \E w \in E.workers, f \in StatusFilters :
       LET call == [IdleCall EXCEPT !.op = "list", !.worker = w, !.filter = f,
                                    !.pc = "done"]
           assignments == RepoGetWorkerAssignments(w, f)
       IN  \/ /\ E.dbFails
              /\ calls' = [calls EXCEPT ![c] =
                             [call EXCEPT !.err = ErrGetAssignments]]
           \/ calls' = [calls EXCEPT ![c] =
                          [call EXCEPT
                             !.loaded = assignments,
                             !.list = [i \in DOMAIN assignments |->
                                         convertToPrivacyProtectedResponse(assignments[i])]]]
  /\ UNCHANGED <<clock, asg, bk, stats, tracking, wsVars>>

\* (mutant) GetWorkerAssignment without the ownership check
GetWorkerAssignmentAnyCaller(c, E) ==
  /\ calls[c].pc = "idle"
  /\ Cardinality(Busy) < E.inFlight
  /\ \E id \in E.ids, w \in E.workers :
       LET call == [IdleCall EXCEPT !.op = "get", !.id = id, !.worker = w,
                                    !.pc = "done"]
       IN  calls' = [calls EXCEPT ![c] =
                       IF id \notin DOMAIN asg
                       THEN [call EXCEPT !.err = ErrNotFound]
                       ELSE [call EXCEPT !.ret = asg[id]]]
  /\ UNCHANGED <<clock, asg, bk, stats, tracking, wsVars>>

\* the whole of GetWorkerAssignment: GetByID, the ownership check, the return
GetWorkerAssignment(c, E) ==
  /\ calls[c].pc = "idle"
  /\ Cardinality(Busy) < E.inFlight
  /\ \E id \in E.ids, w \in E.workers :
       LET call == [IdleCall EXCEPT !.op = "get", !.id = id, !.worker = w,
                                    !.pc = "done"]
       IN  calls' = [calls EXCEPT ![c] =
                       IF id \notin DOMAIN asg
                       THEN [call EXCEPT !.err = ErrNotFound]
                       ELSE IF asg[id].workerID # w
                       THEN [call EXCEPT !.err = ErrUnauthorized]
                       ELSE [call EXCEPT !.ret = asg[id]]]
  /\ UNCHANGED <<clock, asg, bk, stats, tracking, wsVars>>

Queries(E) ==
  \/ \E c \in Slots : GetWorkerAssignments(c, E)
  \/ \E c \in Slots : GetWorkerAssignment(c, E)

Requests(E) ==
  \/ \E c \in Slots : AcceptAssignment(c, E)
  \/ \E c \in Slots : RejectAssignment(c, E)
  \/ \E c \in Slots : StartAssignment(c, E)
  \/ \E c \in Slots : CompleteAssignment(c, E)
  \/ \E c \in Slots : Respond(c)

(* ---- specifications ---- *)
(* Spec: the handlers as the server runs them, up to NumCalls requests in  *)
(* flight, any caller, any id, every repository call and side effect free  *)
(* to fail.                                                                *)
AnyEnv == Env(AssignmentIDs \cup {MissingID}, Workers, TRUE, TRUE, NumCalls)
Init == InitWith({<<Some(120), Some(80)>>}, OnePhoneCase, {TRUE}, 1)
Next == Requests(AnyEnv) \/ Tick
Spec == Init /\ [][Next]_vars

(* SeqSpec: one request at a time, with every quote and price case and     *)
(* with and without a location tracking service.                           *)
SeqEnv == Env(AssignmentIDs \cup {MissingID}, Workers, TRUE, TRUE, 1)
SeqInit == InitWith(PriceCases, OnePhoneCase, BOOLEAN, 1)
SeqNext == Requests(SeqEnv) \/ Tick
SeqSpec == SeqInit /\ [][SeqNext]_vars

(* RaceSpec: requests of the owning worker racing on the assignment, with  *)
(* no repository or side-effect failure and within one clock unit.         *)
RaceEnv == Env(AssignmentIDs, {OwnerOf(1)}, FALSE, FALSE, NumCalls)
RaceInit == InitWith({<<Some(120), Some(80)>>}, OnePhoneCase, {TRUE}, MaxClock)
RaceNext == Requests(RaceEnv)
RaceSpec == RaceInit /\ [][RaceNext]_vars

(* QuerySpec: one request at a time, the read operations among them, over  *)
(* bookings with every combination of user phone and contact phone.        *)
QueryEnv == Env(AssignmentIDs \cup {MissingID}, Workers, TRUE, FALSE, 1)
QueryInit == InitWith({<<Some(120), Some(80)>>}, PhoneCases, {TRUE}, 1)
QueryNext == Requests(QueryEnv) \/ Queries(QueryEnv) \/ Tick
QuerySpec == QueryInit /\ [][QueryNext]_vars

(* ProbeSpec: two callers at a time, a worker who owns no assignment among *)
(* them, calling the four operations and GetWorkerAssignment for ids that  *)
(* exist and ids that do not; no failures, within one clock unit.          *)
ProbeEnv == Env(AssignmentIDs \cup {MissingID}, Workers, FALSE, FALSE, 2)
ProbeInit == InitWith({<<Some(120), Some(80)>>}, OnePhoneCase, {TRUE}, MaxClock)
ProbeNext ==
  \/ Requests(ProbeEnv)
  \/ \E c \in Slots : GetWorkerAssignment(c, ProbeEnv)
ProbeSpec == ProbeInit /\ [][ProbeNext]_vars

(* PairSpec: two assignments of the same worker, one with a quote and one  *)
(* with a service price only; the worker's requests for the two, two at a  *)
(* time, no repository or side-effect failure, within one clock unit.      *)
PairIDs == {1, 3}
PairEnv == Env(PairIDs, {OwnerOf(1)}, FALSE, FALSE, 2)
PairInit ==
  /\ clock = MaxClock
  /\ asg = [id \in PairIDs |-> NewAssignment(id)]
  /\ bk = [id \in PairIDs |->
             IF id = 1
             THEN NewBooking(Some(120), Some(80), "9000000001", "9000000001")
             ELSE NewBooking(None, Some(80), "9000000001", "9000000001")]
  /\ stats = [w \in Workers |-> [jobs |-> 0, earnings |-> 0]]
  /\ tracking = FALSE
  /\ calls = [c \in Slots |-> IdleCall]
  /\ WsInit
PairNext == Requests(PairEnv)
PairSpec == PairInit /\ [][PairNext]_vars

(* ExternalSpec: one request at a time, no failure, and the payment logic  *)
(* outside the service, which marks a booking as paid at any moment.        *)
PaymentStatusCompleted == "completed"
\* the payment logic writes the payment status of a booking
ExternalPayment ==
  /\ \E b \in DOMAIN bk :
       /\ bk[b].paymentStatus # PaymentStatusCompleted
       /\ bk' = [bk EXCEPT ![b].paymentStatus = PaymentStatusCompleted]
  /\ UNCHANGED <<clock, asg, stats, tracking, calls, wsVars>>
ExternalEnv == Env(AssignmentIDs, {OwnerOf(1)}, FALSE, FALSE, 1)
ExternalInit == InitWith(PriceCases, OnePhoneCase, BOOLEAN, 1)
ExternalNext == Requests(ExternalEnv) \/ ExternalPayment \/ Tick
ExternalSpec == ExternalInit /\ [][ExternalNext]_vars

(* ClockRaceSpec: two requests of the owning worker racing on the          *)
(* assignment while the clock advances; no failure.                        *)
ClockRaceEnv == Env(AssignmentIDs, {OwnerOf(1)}, FALSE, FALSE, 2)
ClockRaceInit == InitWith({<<Some(120), Some(80)>>}, OnePhoneCase, {TRUE}, 1)
ClockRaceNext == Requests(ClockRaceEnv) \/ Tick
ClockRaceSpec == ClockRaceInit /\ [][ClockRaceNext]_vars

(* ======================================================================= *)
(* ConversationWebSocketService                                            *)
(* ======================================================================= *)
\* the reconnect timers that are pending and the ping intervals that are
\* active, referred to by a field or not
PendingTimeouts ==
  lostTimeouts + (IF reconnectTimeout = Pending THEN 1 ELSE 0)
ActiveIntervals ==
  lostIntervals + (IF pingInterval = Active THEN 1 ELSE 0)

\* startPing: a new interval, kept in this.pingInterval; the interval the
\* field referred to stays active.  The callback of an interval sends a
\* ping over this.ws when that socket is open and changes no field.
startPing ==
  /\ ActiveIntervals < MaxTimers
  /\ lostIntervals' = ActiveIntervals
  /\ pingInterval' = Active

\* stopPing: clears the interval this.pingInterval refers to
stopPing ==
  /\ pingInterval' = NoTimer
  /\ UNCHANGED lostIntervals

\* (mutant) scheduleReconnect without the check of the attempts
scheduleReconnectUnbounded ==
  /\ PendingTimeouts < MaxTimers
  /\ reconnectAttempts' = reconnectAttempts + 1
  /\ lostTimeouts' = PendingTimeouts
  /\ reconnectTimeout' = Pending

\* scheduleReconnect: a new timer unless the attempts are used up; the timer
\* the field referred to stays pending.  The delay
\* min(1000 * 2^attempts, 30000) orders nothing: a timer fires at any moment
\* after it was set.
scheduleReconnect ==
  IF reconnectAttempts >= maxReconnectAttempts
  THEN UNCHANGED <<reconnectAttempts, reconnectTimeout, lostTimeouts>>
  ELSE /\ PendingTimeouts < MaxTimers
       /\ reconnectAttempts' = reconnectAttempts + 1
       /\ lostTimeouts' = PendingTimeouts
       /\ reconnectTimeout' = Pending

\* the guard at the head of connect
connectReturns ==
  isConnecting \/ (ws # NoSocket /\ sockets[ws].readyState = OPEN)

\* the slot of the next socket
FreeSlots == {s \in SocketSlots : sockets[s] = NoWebSocket}
NextSlot == CHOOSE s \in FreeSlots : \A r \in FreeSlots : s <= r

\* connect(t): returns at once, or creates a socket and keeps it in this.ws
connect(t) ==
  IF connectReturns
  THEN UNCHANGED <<ws, token, isConnecting, sockets>>
  ELSE /\ FreeSlots # {}
       /\ token' = Some(t)
       /\ isConnecting' = TRUE
       /\ sockets' = [sockets EXCEPT ![NextSlot] = NewWebSocket]
       /\ ws' = NextSlot

\* the application calls connect(t)
CallConnect(t) ==
  /\ connect(t)
  /\ UNCHANGED <<reconnectTimeout, pingInterval, reconnectAttempts,
                 lostTimeouts, lostIntervals, coreVars>>

\* WebSocket.close(1000, reason): a connecting socket is failed, an open one
\* starts the closing handshake, a closing one is left alone
close(sock) ==
  CASE sock.readyState = CONNECTING -> [readyState |-> CLOSING, failed |-> TRUE]
    [] sock.readyState = OPEN -> [sock EXCEPT !.readyState = CLOSING]
    [] OTHER -> sock

\* the application calls disconnect()
disconnect ==
  /\ reconnectTimeout' = NoTimer
  /\ UNCHANGED lostTimeouts
  /\ stopPing
  /\ sockets' = IF ws # NoSocket
                THEN [sockets EXCEPT ![ws] = close(@)]
                ELSE sockets
  /\ ws' = NoSocket
  /\ token' = None
  /\ reconnectAttempts' = 0
  /\ UNCHANGED <<isConnecting, coreVars>>

\* the callback of a reconnect timer: of the one this.reconnectTimeout
\* refers to (held), or of one no field refers to
ReconnectTimer(held) ==
  /\ IF held
     THEN /\ reconnectTimeout = Pending
          /\ reconnectTimeout' = Fired
          /\ UNCHANGED lostTimeouts
     ELSE /\ lostTimeouts > 0
          /\ lostTimeouts' = lostTimeouts - 1
          /\ UNCHANGED reconnectTimeout
  /\ IF token # None
     THEN connect(token[1])
     ELSE UNCHANGED <<ws, token, isConnecting, sockets>>
  /\ UNCHANGED <<pingInterval, reconnectAttempts, lostIntervals, coreVars>>

\* socket s is established: its readyState becomes OPEN and onopen runs.
\* The two messages onopen sends change no field of the service.
onopen(s) ==
  /\ sockets[s].readyState = CONNECTING
  /\ sockets' = [sockets EXCEPT ![s].readyState = OPEN]
  /\ isConnecting' = FALSE
  /\ reconnectAttempts' = 0
  /\ startPing
  /\ UNCHANGED <<ws, reconnectTimeout, token, lostTimeouts, coreVars>>

\* socket s is closed with the given code: its readyState becomes CLOSED and
\* onclose runs.  A socket that never opened or was failed closes with the
\* abnormal code, and onerror runs in the same task just before onclose; it
\* sets isConnecting to false, as onclose does.
onclose(s, code) ==
  /\ sockets[s] # NoWebSocket
  /\ (sockets[s].readyState = CONNECTING \/ sockets[s].failed)
       => code = CloseAbnormal
  /\ sockets' = [sockets EXCEPT ![s] = NoWebSocket]
  /\ isConnecting' = FALSE
  /\ ws' = NoSocket
  /\ stopPing
  /\ IF code # CloseNormal /\ token # None
     THEN scheduleReconnect
     ELSE UNCHANGED <<reconnectAttempts, reconnectTimeout, lostTimeouts>>
  /\ UNCHANGED <<token, coreVars>>

(* SocketSpec: the application's connect and disconnect calls, the         *)
(* reconnect timers and the open and close events of the sockets, in any   *)
(* order.                                                                  *)
SocketInit == InitWith({<<Some(120), Some(80)>>}, OnePhoneCase, {TRUE}, 1)
SocketNext ==
  \/ \E t \in Tokens : CallConnect(t)
  \/ disconnect
  \/ \E held \in BOOLEAN : ReconnectTimer(held)
  \/ \E s \in SocketSlots : onopen(s)
  \/ \E s \in SocketSlots, code \in CloseCodes : onclose(s, code)
SocketSpec == SocketInit /\ [][SocketNext]_vars

(* ======================================================================= *)
(* Properties                                                              *)
(* ======================================================================= *)
\* the transition table: the status an operation requires and the one it sets
TablePrecondition(op) ==
  CASE op \in {"accept", "reject"} -> "assigned"
    [] op = "start" -> "accepted"
    [] op = "complete" -> "in_progress"
TableTarget(op) ==
  CASE op = "accept" -> "accepted"
    [] op = "reject" -> "rejected"
    [] op = "start" -> "in_progress"
    [] op = "complete" -> "completed"
TableEdges == {<<TablePrecondition(op), TableTarget(op)>> : op \in Ops}

\* the error kind (NotFound, Unauthorized, InvalidStateTransition,
\* PersistenceFailure) of an error a handler returns
ErrorKind(e) ==
  CASE e = NoError -> "none"
    [] e = ErrNotFound -> "NotFound"
    [] e = ErrUnauthorized -> "Unauthorized"
    [] e \in {ErrStatus(op) : op \in Ops} -> "InvalidStateTransition"
    [] OTHER -> "PersistenceFailure"

\* a request arrives at slot c in this step
Arrives(c) == calls[c].pc = "idle" /\ calls'[c].pc # "idle"
\* the request at slot c has returned
Returned(c) == calls[c].pc = "done"
Succeeded(c) == Returned(c) /\ calls[c].err = NoError

\* C1: every change of an assignment's persisted status is one of the four
\* edges assigned->accepted, assigned->rejected, accepted->in_progress,
\* in_progress->completed.
C1_StatusFollowsTable ==
  [][\A id \in AssignmentIDs :
       asg'[id].status # asg[id].status
         => <<asg[id].status, asg'[id].status>> \in TableEdges]_vars

\* C2: a call by the owning worker on an assignment whose status is not the
\* one the operation requires returns InvalidStateTransition and leaves the
\* persisted assignment and booking as they were.
C2_WrongStatusRejectedUnchanged ==
  [][\A c \in Slots :
       ( /\ Arrives(c)
         /\ calls'[c].id \in DOMAIN asg
         /\ calls'[c].worker = asg[calls'[c].id].workerID
         /\ asg[calls'[c].id].status # TablePrecondition(calls'[c].op) )
       => ( /\ calls'[c].pc = "done"
            /\ ErrorKind(calls'[c].err) = "InvalidStateTransition"
            /\ asg' = asg
            /\ bk' = bk )]_vars

\* C2 witness: the owner's Accept on a completed assignment was turned down
C2_Witness ==
  \E c \in Slots :
    /\ Returned(c)
    /\ calls[c].op = "accept"
    /\ calls[c].id \in DOMAIN asg
    /\ calls[c].worker = asg[calls[c].id].workerID
    /\ asg[calls[c].id].status = "completed"
    /\ ErrorKind(calls[c].err) = "InvalidStateTransition"

\* C3: a call whose workerID is not the assignment's returns Unauthorized, in
\* every status, and changes neither the assignment, the booking nor the
\* worker statistics.
C3_NonOwnerUnauthorizedUnchanged ==
  [][\A c \in Slots :
       ( /\ Arrives(c)
         /\ calls'[c].id \in DOMAIN asg
         /\ calls'[c].worker # asg[calls'[c].id].workerID )
       => ( /\ calls'[c].pc = "done"
            /\ ErrorKind(calls'[c].err) = "Unauthorized"
            /\ asg' = asg
            /\ bk' = bk
            /\ stats' = stats )]_vars

\* C3 witness: another worker's Complete on an in_progress assignment (which
\* the owner could complete) was turned down as unauthorized
C3_Witness ==
  \E c \in Slots :
    /\ Returned(c)
    /\ calls[c].op = "complete"
    /\ calls[c].id \in DOMAIN asg
    /\ calls[c].worker # asg[calls[c].id].workerID
    /\ asg[calls[c].id].status = "in_progress"
    /\ ErrorKind(calls[c].err) = "Unauthorized"

\* C4: when the assignment update succeeded and the booking load or update
\* then failed, the operation returns an error and the persisted assignment
\* is in its pre-call state.
C4_FailedBookingWriteRollsBack ==
  \A c \in Slots :
    (Returned(c) /\ calls[c].savedA /\ ~calls[c].savedB)
      => (calls[c].err # NoError /\ asg[calls[c].id] = calls[c].before)

\* C5: of two Accept calls on the same assignment exactly one succeeds, and
\* the Accept side effects are dispatched for at most one of them.
C5_OneAcceptWins ==
  \A c1, c2 \in Slots :
    ( /\ c1 # c2
      /\ calls[c1].op = "accept" /\ calls[c2].op = "accept"
      /\ calls[c1].id = calls[c2].id
      /\ calls[c1].worker = calls[c2].worker
      /\ Returned(c1) /\ Returned(c2) )
    => ( /\ ~(Succeeded(c1) /\ Succeeded(c2))
         /\ ~(calls[c1].fx # {} /\ calls[c2].fx # {}) )

\* C6: of an Accept and a Reject racing on the same assignment at most one
\* succeeds, and no assignment has both acceptedAt and rejectedAt set.
C6_AcceptRejectExclusive ==
  /\ \A c1, c2 \in Slots :
       ( /\ calls[c1].op = "accept" /\ calls[c2].op = "reject"
         /\ calls[c1].id = calls[c2].id
         /\ Returned(c1) /\ Returned(c2) )
       => ~(Succeeded(c1) /\ Succeeded(c2))
  /\ \A id \in AssignmentIDs :
       ~(IsSet(asg[id].acceptedAt) /\ IsSet(asg[id].rejectedAt))

\* C7: in every persisted assignment at most one of acceptedAt and rejectedAt
\* is set, startedAt is set only if acceptedAt is, and completedAt is set only
\* if startedAt is.
C7_TimestampInvariant ==
  \A id \in AssignmentIDs :
    /\ ~(IsSet(asg[id].acceptedAt) /\ IsSet(asg[id].rejectedAt))
    /\ IsSet(asg[id].startedAt) => IsSet(asg[id].acceptedAt)
    /\ IsSet(asg[id].completedAt) => IsSet(asg[id].startedAt)

\* C7 witness: an assignment that went all the way to completed
C7_Witness ==
  \E id \in AssignmentIDs :
    /\ asg[id].status = "completed"
    /\ IsSet(asg[id].acceptedAt)
    /\ IsSet(asg[id].startedAt)
    /\ IsSet(asg[id].completedAt)

\* C8: a call that fails both the ownership check and the state precondition
\* returns Unauthorized, not InvalidStateTransition.
C8_OwnershipBeforeState ==
  [][\A c \in Slots :
       ( /\ Arrives(c)
         /\ calls'[c].id \in DOMAIN asg
         /\ calls'[c].worker # asg[calls'[c].id].workerID
         /\ asg[calls'[c].id].status # TablePrecondition(calls'[c].op) )
       => ( /\ ErrorKind(calls'[c].err) = "Unauthorized"
            /\ ErrorKind(calls'[c].err) # "InvalidStateTransition" )]_vars

\* C8 witness: another worker's Start on a rejected assignment
C8_Witness ==
  \E c \in Slots :
    /\ Returned(c)
    /\ calls[c].op = "start"
    /\ calls[c].id \in DOMAIN asg
    /\ calls[c].worker # asg[calls[c].id].workerID
    /\ asg[calls[c].id].status = "rejected"
    /\ ErrorKind(calls[c].err) = "Unauthorized"

\* C9: a call has invoked a side effect (or credited earnings) only if its
\* assignment update and its booking update have both succeeded.
C9_SideEffectsAfterCommit ==
  \A c \in Slots :
    (calls[c].fx # {} \/ IsSet(calls[c].earned))
      => (calls[c].savedA /\ calls[c].savedB)

\* C9 witness: a Complete that invoked its side effects and credited earnings
C9_Witness ==
  \E c \in Slots :
    /\ calls[c].op = "complete"
    /\ "chat_close" \in calls[c].fx
    /\ IsSet(calls[c].earned)
    /\ calls[c].savedA /\ calls[c].savedB

\* C10: a call whose assignment and booking updates both succeeded returns
\* the updated assignment and no error whatever its side effects did, and the
\* two rows stay as written.
C10_SideEffectFailuresNotSurfaced ==
  \A c \in Slots :
    (Returned(c) /\ calls[c].savedA /\ calls[c].savedB)
      => ( /\ calls[c].err = NoError
           /\ calls[c].ret = calls[c].a
           /\ calls[c].ret.status = TableTarget(calls[c].op)
           /\ asg[calls[c].id] = calls[c].a
           /\ bk[calls[c].a.bookingID] = calls[c].b
           /\ bk[calls[c].a.bookingID].status # BookingStatusPending )

\* C10 witness: a Complete returned without error although the worker
\* lookup, the chat room closure and the tracking stop all failed
C10_Witness ==
  \E c \in Slots :
    /\ Succeeded(c)
    /\ calls[c].op = "complete"
    /\ calls[c].failed = {"worker_lookup", "chat_close", "track_stop"}
    /\ calls[c].ret.status = "completed"

\* no handler is between its first repository call and its return
Quiescent == \A c \in Slots : calls[c].pc \in {"idle", "done"}

\* C11: whenever no operation is in flight, the booking's status agrees with
\* the assignment's: accepted or rejected with confirmed, in_progress with
\* in_progress, completed with completed.
C11_BookingAgreesWhenQuiescent ==
  Quiescent =>
    \A id \in AssignmentIDs :
      LET a == asg[id]
          b == bk[a.bookingID]
      IN  /\ a.status \in {"accepted", "rejected"} => b.status = "confirmed"
          /\ a.status = "in_progress" => b.status = "in_progress"
          /\ a.status = "completed" => b.status = "completed"

\* C12: on a successful Complete the amount passed to the worker statistics
\* increment is the booking's quote amount when there is one, otherwise the
\* service price when there is one, otherwise 0; an increment that succeeds
\* raises the worker's earnings by that amount and the job count by one.
C12_EarningsQuoteThenPriceThenZero ==
  \A c \in Slots :
    (Succeeded(c) /\ calls[c].op = "complete" /\ "stats_increment" \in calls[c].fx)
    => LET b == bk[calls[c].ret.bookingID]
           w == calls[c].ret.workerID
       IN  /\ IsSet(calls[c].amount)
           /\ IsSet(b.quoteAmount) => calls[c].amount = b.quoteAmount
           /\ (~IsSet(b.quoteAmount) /\ IsSet(b.servicePrice))
                => calls[c].amount = b.servicePrice
           /\ (~IsSet(b.quoteAmount) /\ ~IsSet(b.servicePrice))
                => calls[c].amount = Some(0)
           /\ b.quoteAmount = Some(120) => calls[c].amount = Some(120)
           /\ "stats_increment" \notin calls[c].failed
                => /\ calls[c].earned = calls[c].amount
                   /\ stats[w].earnings = calls[c].amount[1]
                   /\ stats[w].jobs = 1

\* C12 witness: a Complete on a booking with a quote of 120 and a price of 80
\* credited 120
C12_Witness ==
  \E c \in Slots :
    /\ Succeeded(c) /\ calls[c].op = "complete"
    /\ bk[calls[c].ret.bookingID].quoteAmount = Some(120)
    /\ bk[calls[c].ret.bookingID].servicePrice = Some(80)
    /\ calls[c].amount = Some(120)
    /\ stats[calls[c].ret.workerID].earnings = 120

\* floor of the whole minutes between two clock readings
FloorMinutes(from, to) ==
  CHOOSE m \in -MaxClock..MaxClock :
    m * TicksPerMinute <= to - from /\ to - from < (m + 1) * TicksPerMinute

\* C13: after every successful Complete the booking's actualDurationMinutes
\* is set and is the floor of the minutes between the assignment's startedAt
\* and its completedAt.
C13_DurationIsFloorOfMinutes ==
  \A c \in Slots :
    (Succeeded(c) /\ calls[c].op = "complete")
    => LET a == asg[calls[c].id]
           b == bk[a.bookingID]
       IN  /\ IsSet(b.actualDurationMinutes)
           /\ b.actualDurationMinutes =
                Some(FloorMinutes(a.startedAt[1], a.completedAt[1]))

\* the loaded assignment x with other phone values in its booking
WithPhones(x, phone, contact) ==
  [x EXCEPT !.booking.user.phone = phone, !.booking.contactPhone = contact]

\* C14: the response of the privacy projection does not depend on the phone
\* values of the booking or its user: for every assignment a list request
\* loaded and every assignment that differs from it only in the user's phone
\* and the booking's contact phone, convertToPrivacyProtectedResponse returns
\* the response the request returned.
C14_ProjectionIgnoresPhones ==
  \A c \in Slots :
    (Succeeded(c) /\ calls[c].op = "list")
    => \A i \in DOMAIN calls[c].loaded :
         \A phone, contact \in Phones :
           convertToPrivacyProtectedResponse(
               WithPhones(calls[c].loaded[i], phone, contact))
             = calls[c].list[i]

\* the returned call at slot c was for an id that has no row
ProbedMissing(c) ==
  /\ Returned(c)
  /\ calls[c].op \in Ops \cup {"get"}
  /\ calls[c].id \notin DOMAIN asg
\* the returned call at slot c was for another worker's assignment
ProbedForeign(c) ==
  /\ Returned(c)
  /\ calls[c].op \in Ops \cup {"get"}
  /\ calls[c].id \in DOMAIN asg
  /\ asg[calls[c].id].workerID # calls[c].worker
\* what the caller of a returned call sees
Seen(c) == <<calls[c].err, calls[c].ret>>

\* C15 (as stated): for the same caller and the same operation, the call for
\* an id that does not exist and the call for an id that exists but belongs
\* to another worker return the same error.
C15_MissingAndForeignAlike ==
  \A c, d \in Slots :
    ( /\ ProbedMissing(c) /\ ProbedForeign(d)
      /\ calls[c].worker = calls[d].worker
      /\ calls[c].op = calls[d].op )
    => calls[c].err = calls[d].err

\* C15 (amended): a worker who does not own the assignment learns whether it
\* exists and nothing else: every call for an id that does not exist returns
\* NotFound, every call for another worker's assignment returns Unauthorized,
\* and two such calls return the same thing whatever the operation (the four
\* operations and GetWorkerAssignment) and whatever the assignment's status
\* was, with no side effect invoked.
C15_NonOwnerLearnsExistenceOnly ==
  \A c, d \in Slots :
    /\ ProbedMissing(c) => Seen(c) = <<ErrNotFound, NoRow>> /\ calls[c].fx = {}
    /\ ProbedForeign(c) => Seen(c) = <<ErrUnauthorized, NoRow>> /\ calls[c].fx = {}
    /\ (ProbedMissing(c) /\ ProbedMissing(d)) => Seen(c) = Seen(d)
    /\ (ProbedForeign(c) /\ ProbedForeign(d)) => Seen(c) = Seen(d)

\* C15 witness: another worker's GetWorkerAssignment and Complete on an
\* accepted assignment both returned, with the same error
C15_Witness ==
  \E c, d \in Slots :
    /\ ProbedForeign(c) /\ calls[c].op = "get"
    /\ ProbedForeign(d) /\ calls[d].op = "complete"
    /\ asg[calls[d].id].status = "accepted"
    /\ Seen(c) = Seen(d)

\* C16: a successful Accept leaves the assignment accepted, with acceptedAt
\* the call's timestamp and acceptanceNotes the notes it was given, leaves the
\* booking confirmed, and returns the assignment as it now is.
C16_AcceptPostcondition ==
  \A c \in Slots :
    (Succeeded(c) /\ calls[c].op = "accept")
    => LET a == asg[calls[c].id]
       IN  /\ calls[c].savedA /\ calls[c].savedB
           /\ calls[c].before.status = "assigned"
           /\ calls[c].worker = a.workerID
           /\ a.status = "accepted"
           /\ a.acceptedAt = Some(calls[c].now)
           /\ calls[c].now <= clock
           /\ a.acceptanceNotes = calls[c].notes
           /\ bk[a.bookingID].status = "confirmed"
           /\ calls[c].ret = a

\* C16 witness: an Accept with notes returned without error
C16_Witness ==
  \E c \in Slots :
    /\ Succeeded(c) /\ calls[c].op = "accept"
    /\ calls[c].notes = "note"
    /\ asg[calls[c].id].acceptanceNotes = "note"
    /\ calls[c].ret.status = "accepted"

\* C17: a successful Reject leaves the assignment rejected, with rejectedAt
\* the call's timestamp, rejectionReason and rejectionNotes the values it was
\* given and acceptedAt unset, and leaves the booking confirmed.
C17_RejectPostcondition ==
  \A c \in Slots :
    (Succeeded(c) /\ calls[c].op = "reject")
    => LET a == asg[calls[c].id]
       IN  /\ calls[c].savedA /\ calls[c].savedB
           /\ calls[c].before.status = "assigned"
           /\ calls[c].worker = a.workerID
           /\ a.status = "rejected"
           /\ a.rejectedAt = Some(calls[c].now)
           /\ calls[c].now <= clock
           /\ a.rejectionReason = calls[c].reason
           /\ a.rejectionNotes = calls[c].notes
           /\ ~IsSet(a.acceptedAt)
           /\ bk[a.bookingID].status = "confirmed"

\* C17 witness: a Reject with a reason and notes returned without error
C17_Witness ==
  \E c \in Slots :
    /\ Succeeded(c) /\ calls[c].op = "reject"
    /\ calls[c].reason = "busy" /\ calls[c].notes = "note"
    /\ asg[calls[c].id].rejectionReason = "busy"
    /\ asg[calls[c].id].rejectionNotes = "note"

\* C18: a successful Start leaves the assignment in_progress with startedAt
\* the call's timestamp, and the booking in_progress with actualStartTime that
\* same timestamp.
C18_StartPostcondition ==
  \A c \in Slots :
    (Succeeded(c) /\ calls[c].op = "start")
    => LET a == asg[calls[c].id]
           b == bk[a.bookingID]
       IN  /\ calls[c].savedA /\ calls[c].savedB
           /\ calls[c].before.status = "accepted"
           /\ calls[c].worker = a.workerID
           /\ a.status = "in_progress"
           /\ a.startedAt = Some(calls[c].now)
           /\ calls[c].now <= clock
           /\ b.status = "in_progress"
           /\ b.actualStartTime = a.startedAt

\* C18 witness: a Start returned without error after the clock had advanced
C18_Witness ==
  \E c \in Slots :
    /\ Succeeded(c) /\ calls[c].op = "start"
    /\ calls[c].now = MaxClock
    /\ bk[asg[calls[c].id].bookingID].actualStartTime = Some(MaxClock)

\* C19: a successful Complete leaves the assignment completed with
\* completedAt the call's timestamp, and the booking completed with
\* actualEndTime that same timestamp.
C19_CompletePostcondition ==
  \A c \in Slots :
    (Succeeded(c) /\ calls[c].op = "complete")
    => LET a == asg[calls[c].id]
           b == bk[a.bookingID]
       IN  /\ calls[c].savedA /\ calls[c].savedB
           /\ calls[c].before.status = "in_progress"
           /\ calls[c].worker = a.workerID
           /\ a.status = "completed"
           /\ a.completedAt = Some(calls[c].now)
           /\ calls[c].now <= clock
           /\ b.status = "completed"
           /\ b.actualEndTime = a.completedAt

\* C19 witness: a Complete returned without error after the Start, at a later
\* clock reading
C19_Witness ==
  \E c \in Slots :
    /\ Succeeded(c) /\ calls[c].op = "complete"
    /\ bk[asg[calls[c].id].bookingID].actualEndTime = Some(MaxClock)
    /\ asg[calls[c].id].startedAt = Some(1)

\* how far along assigned -> accepted -> in_progress -> completed a status is;
\* a row reaches a status of this chain only after it held the ones before it
ChainRank(s) ==
  CASE s = "assigned" -> 0
    [] s = "accepted" -> 1
    [] s = "in_progress" -> 2
    [] s = "completed" -> 3
    [] OTHER -> -1

\* C20: every committed transition is permanent: no step changes the status
\* of an assignment that is rejected or completed, and no step takes an
\* assignment's status back to a value it held earlier.
C20_TransitionsArePermanent ==
  [][\A id \in AssignmentIDs :
       /\ asg[id].status \in {"rejected", "completed"}
            => asg'[id].status = asg[id].status
       /\ (ChainRank(asg[id].status) >= 0 /\ ChainRank(asg'[id].status) >= 0)
            => ChainRank(asg'[id].status) >= ChainRank(asg[id].status)]_vars

\* the booking fields a handler may change
BookingFieldsWritten ==
  {"status", "actualStartTime", "actualEndTime", "actualDurationMinutes"}

\* C21: no step of Accept, Reject, Start or Complete changes a persisted
\* booking field other than status, actualStartTime, actualEndTime and
\* actualDurationMinutes.
C21_BookingFrame ==
  [][\A b \in DOMAIN bk :
       \A f \in DOMAIN bk[b] \ BookingFieldsWritten :
         bk'[b][f] = bk[b][f]]_vars

\* C21 witness: a Complete returned without error; its booking is completed,
\* has its times set and still has its quote, price, payment status and phones
C21_Witness ==
  \E c \in Slots :
    /\ Succeeded(c) /\ calls[c].op = "complete"
    /\ LET b == bk[asg[calls[c].id].bookingID]
       IN  /\ b.status = "completed"
           /\ IsSet(b.actualStartTime) /\ IsSet(b.actualEndTime)
           /\ IsSet(b.actualDurationMinutes)
           /\ b.quoteAmount = Some(120) /\ b.servicePrice = Some(80)
           /\ b.paymentStatus = "pending"
           /\ b.contactPhone = "9000000001"

\* C22: the worker statistics change only in the step in which a Complete
\* runs its side effects, never in a step of Accept, Reject, Start,
\* GetWorkerAssignment or GetWorkerAssignments, and neither the job count nor
\* the earnings of a worker ever decreases.
C22_StatsOnlyByComplete ==
  [][/\ stats' # stats
          => \E c \in Slots :
               /\ calls[c].op = "complete"
               /\ calls[c].pc = "committed"
               /\ calls'[c].pc = "done"
               /\ "stats_increment" \in calls'[c].fx
     /\ \A c \in Slots :
          (calls'[c] # calls[c] /\ calls'[c].op \in {"accept", "reject", "start", "get", "list"})
            => stats' = stats
     /\ \A w \in Workers :
          /\ stats'[w].jobs >= stats[w].jobs
          /\ stats'[w].earnings >= stats[w].earnings]_vars

\* C22 witness: the worker was credited by a Complete, and afterwards a
\* GetWorkerAssignments returned with the statistics as the Complete left them
C22_Witness ==
  \E c \in Slots :
    /\ Succeeded(c) /\ calls[c].op = "list"
    /\ stats[calls[c].worker] = [jobs |-> 1, earnings |-> 120]

\* the Complete at slot c runs its side effects in this step and its
\* increment of the worker's statistics succeeds
Credits(c) ==
  /\ calls[c].op = "complete"
  /\ calls[c].pc = "committed"
  /\ calls'[c].pc = "done"
  /\ "stats_increment" \in calls'[c].fx \ calls'[c].failed

\* C23: no increment of a Complete is lost, whatever other Complete of the
\* same worker is in flight: the step in which a Complete credits the worker
\* raises the worker's job count by exactly 1 and the earnings by exactly the
\* amount of that Complete's booking, so two Completes for two different
\* assignments raise them by 2 and by the sum of the two amounts.
C23_NoIncrementLost ==
  [][\A c \in Slots :
       Credits(c)
       => LET w == calls[c].a.workerID
          IN  /\ stats'[w].jobs = stats[w].jobs + 1
              /\ stats'[w].earnings
                   = stats[w].earnings + Earnings(bk[calls[c].a.bookingID])
              /\ calls'[c].amount = Some(Earnings(bk[calls[c].a.bookingID]))
              /\ \A v \in Workers \ {w} : stats'[v] = stats[v]]_vars

\* C23 witness: the Completes of the two assignments have both returned and
\* neither response has been collected; the worker has 2 jobs and 120 + 80
\* in earnings
C23_Witness ==
  \E c, d \in Slots :
    /\ Succeeded(c) /\ calls[c].op = "complete" /\ calls[c].id = 1
    /\ Succeeded(d) /\ calls[d].op = "complete" /\ calls[d].id = 3
    /\ calls[c].amount = Some(120) /\ calls[d].amount = Some(80)
    /\ stats[OwnerOf(1)] = [jobs |-> 2, earnings |-> 200]

\* the handler at slot c returns without having waited for a side effect
ReturnsWithoutWaiting(c) ==
  /\ \E op \in Ops : Dispatch(c, op, SeqEnv)
  /\ calls'[c].awaited = {}

\* C24: as soon as the assignment and booking writes of a call have committed
\* its return is enabled without the completion of any side effect: the
\* handler can return with none of its side effects finished.
C24_ReturnDoesNotWait ==
  \A c \in Slots :
    calls[c].pc = "committed" => ENABLED ReturnsWithoutWaiting(c)

\* the side-effect ports: chat room, call masking, location tracking and the
\* increment of the worker statistics
PortCalls ==
  {"chat_create", "chat_close", "mask_enable", "mask_disable", "track_start",
   "track_stop", "stats_increment"}

\* C25: a call invokes each of its side-effect ports at most once, whether
\* the port call succeeds or fails; once a handler has run its side effects
\* it takes no further step, and it credits the worker at most once.
C25_NoRetry ==
  [][\A c \in Slots :
       /\ \A e \in DOMAIN calls'[c].times : calls'[c].times[e] <= 1
       /\ (calls[c].fx # {} /\ calls'[c].pc # "idle")
            => (calls'[c] = calls[c])
       /\ (calls[c].pc = "committed" /\ calls'[c].pc = "done")
            => \A w \in Workers : stats'[w].jobs <= stats[w].jobs + 1]_vars

\* C25 witness: a Complete whose chat room closure and tracking stop failed
\* returned, each of its ports having been invoked once
C25_Witness ==
  \E c \in Slots :
    /\ Succeeded(c) /\ calls[c].op = "complete"
    /\ {"chat_close", "track_stop"} \subseteq calls[c].failed
    /\ \A e \in PortCalls \cap calls[c].fx : calls[c].times[e] = 1
    /\ {"chat_close", "track_stop", "mask_disable", "stats_increment"}
         \subseteq calls[c].fx

\* the side effects the transition table lists for an operation
RowEffects(op) ==
  CASE op = "accept" ->
         {"chat_create", "mask_enable", "notify_assigned", "notify_accepted"}
    [] op = "reject" ->
         {"mask_disable", "notify_rejected_inapp", "notify_rejected"}
    [] op = "start" -> {"track_start", "notify_started"}
    [] op = "complete" ->
         {"mask_disable", "stats_increment", "chat_close", "track_stop",
          "notify_completed"}

\* C26 (as stated): every successful operation has dispatched exactly the
\* side effects of its row of the transition table.
C26_ExactlyRowEffects ==
  \A c \in Slots :
    (Succeeded(c) /\ calls[c].op \in Ops)
    => calls[c].fx \ {"worker_lookup"} = RowEffects(calls[c].op)

\* C26 (amended): every successful operation has dispatched exactly the side
\* effects of its row, except that location tracking is started and stopped
\* only when a location tracking service is configured, and that the
\* statistics increment of Complete is made only when the lookup of the
\* worker that precedes it succeeded.
C26_RowEffectsAsConfigured ==
  \A c \in Slots :
    (Succeeded(c) /\ calls[c].op \in Ops)
    => LET noTracker == IF tracking THEN {} ELSE {"track_start", "track_stop"}
           noWorker == IF "worker_lookup" \in calls[c].failed
                       THEN {"stats_increment"} ELSE {}
       IN  /\ calls[c].fx \ {"worker_lookup"}
                = RowEffects(calls[c].op) \ (noTracker \cup noWorker)
           /\ calls[c].op = "complete" <=> "worker_lookup" \in calls[c].fx

\* C26 witness: with no location tracking service, a Start returned having
\* dispatched its notification only
C26_Witness ==
  \E c \in Slots :
    /\ Succeeded(c) /\ calls[c].op = "start"
    /\ ~tracking
    /\ calls[c].fx = {"notify_started"}

\* C27: a call of Accept, Reject, Start or Complete that returned an error
\* (NotFound, Unauthorized, InvalidStateTransition or PersistenceFailure) has
\* invoked no side effect and credited no earnings.
C27_FailedCallDispatchesNothing ==
  \A c \in Slots :
    (Returned(c) /\ calls[c].op \in Ops /\ calls[c].err # NoError)
    => /\ ErrorKind(calls[c].err) \in
            {"NotFound", "Unauthorized", "InvalidStateTransition",
             "PersistenceFailure"}
       /\ calls[c].fx = {}
       /\ calls[c].awaited = {}
       /\ DOMAIN calls[c].times = {}
       /\ ~IsSet(calls[c].amount)
       /\ ~IsSet(calls[c].earned)

\* C27 witness: a Complete whose assignment update succeeded and whose
\* booking update failed returned an error
C27_Witness ==
  \E c \in Slots :
    /\ Returned(c) /\ calls[c].op = "complete"
    /\ calls[c].savedA /\ ~calls[c].savedB
    /\ calls[c].b # NoRow
    /\ ErrorKind(calls[c].err) = "PersistenceFailure"
    /\ calls[c].fx = {}
    /\ stats[calls[c].worker].jobs = 0

\* C28: GetWorkerAssignment returns the assignment exactly when the caller's
\* workerID is the assignment's, returns Unauthorized (the error the ownership
\* check of the four operations gives) for any other caller and NotFound for
\* an id that has no row, and changes no state.
C28_GetChecksOwnership ==
  [][\A c \in Slots :
       (Arrives(c) /\ calls'[c].op = "get")
       => LET id == calls'[c].id
              w == calls'[c].worker
          IN  /\ calls'[c].pc = "done"
              /\ id \notin DOMAIN asg
                   => /\ ErrorKind(calls'[c].err) = "NotFound"
                      /\ calls'[c].ret = NoRow
              /\ (id \in DOMAIN asg /\ asg[id].workerID = w)
                   => /\ calls'[c].err = NoError
                      /\ calls'[c].ret = asg[id]
              /\ (id \in DOMAIN asg /\ asg[id].workerID # w)
                   => /\ ErrorKind(calls'[c].err) = "Unauthorized"
                      /\ calls'[c].ret = NoRow
                      /\ \A op \in Ops :
                           CheckAssignment(op, asg[id], w) = calls'[c].err
              /\ <<clock, asg, bk, stats, tracking>>'
                   = <<clock, asg, bk, stats, tracking>>
              /\ \A d \in Slots \ {c} : calls'[d] = calls[d]]_vars

\* C28 witness: the owner got their in_progress assignment
C28_Witness ==
  \E c \in Slots :
    /\ Succeeded(c) /\ calls[c].op = "get"
    /\ calls[c].worker = asg[calls[c].id].workerID
    /\ calls[c].ret = asg[calls[c].id]
    /\ calls[c].ret.status = "in_progress"

\* C29: for an id whose assignment cannot be loaded, each of Accept, Reject,
\* Start and Complete returns NotFound and changes no assignment, no booking
\* and no worker statistics.
C29_MissingIsNotFound ==
  [][\A c \in Slots :
       (Arrives(c) /\ calls'[c].op \in Ops /\ calls'[c].id \notin DOMAIN asg)
       => /\ calls'[c].pc = "done"
          /\ ErrorKind(calls'[c].err) = "NotFound"
          /\ calls'[c].ret = NoRow
          /\ calls'[c].fx = {}
          /\ ~calls'[c].savedA /\ ~calls'[c].savedB
          /\ asg' = asg /\ bk' = bk /\ stats' = stats]_vars

\* C29 witness: a Complete for an id with no row returned NotFound while the
\* worker's assignment was in_progress
C29_Witness ==
  \E c \in Slots :
    /\ Returned(c) /\ calls[c].op = "complete"
    /\ calls[c].id = MissingID
    /\ calls[c].worker = OwnerOf(1)
    /\ calls[c].err = ErrNotFound
    /\ asg[1].status = "in_progress"

CompleteEffects ==
  {"mask_disable", "worker_lookup", "stats_increment", "chat_close",
   "notify_completed"} \cup (IF tracking THEN {"track_stop"} ELSE {})
\* the side effects of an Accept other than the creation of the chat room
AcceptOtherEffects == {"mask_enable", "notify_assigned", "notify_accepted"}

\* C31 (as stated): on a successful Complete a failure of the worker lookup,
\* the statistics increment, the chat room closure or the tracking stop
\* leaves every other side effect of the Complete invoked; on a successful
\* Accept a failure of the chat room creation leaves call masking and the
\* notifications invoked.
C31_FailureStopsNothing ==
  \A c \in Slots :
    /\ (Succeeded(c) /\ calls[c].op = "complete")
         => \A e \in calls[c].failed : CompleteEffects \ {e} \subseteq calls[c].fx
    /\ (Succeeded(c) /\ calls[c].op = "accept" /\ "chat_create" \in calls[c].failed)
         => AcceptOtherEffects \subseteq calls[c].fx

\* C31 (amended): as stated, except that a failed worker lookup leaves the
\* statistics increment, which needs the worker it looks up, uninvoked.
C31_FailureStopsOnlyIncrement ==
  \A c \in Slots :
    /\ (Succeeded(c) /\ calls[c].op = "complete")
         => /\ calls[c].failed # {}
                 => CompleteEffects \ {"stats_increment"} \subseteq calls[c].fx
            /\ "stats_increment" \in calls[c].fx
                 <=> "worker_lookup" \notin calls[c].failed
            /\ calls[c].failed \subseteq
                 {"worker_lookup", "stats_increment", "chat_close", "track_stop"}
    /\ (Succeeded(c) /\ calls[c].op = "accept" /\ "chat_create" \in calls[c].failed)
         => AcceptOtherEffects \subseteq calls[c].fx

\* C31 witness: a Complete whose chat room closure failed has stopped the
\* tracking, credited the worker and sent its notification
C31_Witness ==
  \E c \in Slots :
    /\ Succeeded(c) /\ calls[c].op = "complete"
    /\ tracking
    /\ calls[c].failed = {"chat_close"}
    /\ {"track_stop", "notify_completed", "stats_increment"} \subseteq calls[c].fx
    /\ IsSet(calls[c].earned)

\* C32: IncrementCompletedJob is invoked at most once for an assignment: no
\* two Complete calls for the same assignment have both invoked it, and the
\* worker has no more completed jobs than assignments.
C32_OneIncrementPerAssignment ==
  /\ \A c, d \in Slots :
       ( /\ c # d
         /\ calls[c].op = "complete" /\ calls[d].op = "complete"
         /\ calls[c].id = calls[d].id )
       => ~("stats_increment" \in calls[c].fx /\ "stats_increment" \in calls[d].fx)
  /\ \A w \in Workers :
       stats[w].jobs <= Cardinality({id \in DOMAIN asg : asg[id].workerID = w})

\* C33: an assignment persisted as completed has IncrementCompletedJob called
\* for it by the time the Complete that wrote it has returned: whenever no
\* operation is in flight (and no lookup or increment fails), the worker of
\* every completed assignment has a completed job counted.
C33_CompletedIsCredited ==
  Quiescent =>
    \A id \in AssignmentIDs :
      asg[id].status = "completed" => stats[asg[id].workerID].jobs >= 1

\* C34: after a call of Accept, Reject, Start or Complete has returned a
\* PersistenceFailure, the checks of that operation still pass on the
\* persisted assignment, so that the same call made again can succeed.
C34_FailedCallCanBeRetried ==
  \A c \in Slots :
    ( /\ Returned(c) /\ calls[c].op \in Ops
      /\ ErrorKind(calls[c].err) = "PersistenceFailure" )
    => CheckAssignment(calls[c].op, asg[calls[c].id], calls[c].worker) = NoError

\* C35: a change the payment logic makes to a booking's payment status is
\* not lost to a handler's booking update: once the booking is marked as paid
\* no step takes the mark away, the update of a handler that loaded the
\* booking before the change included.
C35_ExternalChangeKept ==
  [][\A b \in DOMAIN bk :
       bk[b].paymentStatus = PaymentStatusCompleted
         => bk'[b].paymentStatus = PaymentStatusCompleted]_vars

\* C36: a Complete on a booking whose actualStartTime is unset writes the
\* booking as completed with actualEndTime the call's timestamp, leaves
\* actualDurationMinutes (and actualStartTime) as they were, and returns
\* without error.
C36_CompleteWithoutStartTime ==
  [][\A c \in Slots :
       LET b == calls[c].a.bookingID
       IN  /\ ( /\ calls[c].op = "complete" /\ calls[c].pc = "loadedB"
                /\ calls'[c].pc = "committed"
                /\ ~IsSet(bk[b].actualStartTime) )
              => ( /\ bk'[b].status = "completed"
                   /\ bk'[b].actualEndTime = Some(calls[c].now)
                   /\ bk'[b].actualDurationMinutes = bk[b].actualDurationMinutes
                   /\ ~IsSet(bk'[b].actualStartTime) )
           /\ ( /\ calls[c].op = "complete" /\ calls[c].pc = "committed"
                /\ calls'[c].pc # "committed" )
              => ( /\ calls'[c].pc = "done"
                   /\ calls'[c].err = NoError
                   /\ calls'[c].ret.status = "completed" )]_vars

\* C36 witness: a Complete returned without error on a booking that has no
\* actual start time; the booking is completed and has no duration
C36_Witness ==
  \E c \in Slots :
    /\ Succeeded(c) /\ calls[c].op = "complete"
    /\ LET b == bk[calls[c].ret.bookingID]
       IN  /\ ~IsSet(b.actualStartTime)
           /\ b.status = "completed"
           /\ b.actualEndTime = Some(calls[c].now)
           /\ ~IsSet(b.actualDurationMinutes)

\* p and q are timestamps that may be unset: if q is set, p is set and p <= q
Ordered(p, q) == IsSet(q) => (IsSet(p) /\ p[1] <= q[1])

\* C37: in every reachable state the timestamps of an assignment are in
\* order, acceptedAt <= startedAt <= completedAt whenever the later one is
\* set, and on its booking actualStartTime <= actualEndTime when both are set
\* and actualDurationMinutes >= 0 when it is set.
C37_TimestampsOrdered ==
  \A id \in DOMAIN asg :
    LET a == asg[id]
        b == bk[a.bookingID]
    IN  /\ Ordered(a.acceptedAt, a.startedAt)
        /\ Ordered(a.startedAt, a.completedAt)
        /\ (IsSet(b.actualStartTime) /\ IsSet(b.actualEndTime))
             => b.actualStartTime[1] <= b.actualEndTime[1]
        /\ IsSet(b.actualDurationMinutes) => b.actualDurationMinutes[1] >= 0

\* the sockets in the connecting or open state
Live == {s \in SocketSlots : sockets[s].readyState \in {CONNECTING, OPEN}}

\* C38: at most one WebSocket is connecting or open at any time, and this.ws
\* refers to it.
C38_OneLiveSocket ==
  /\ Cardinality(Live) <= 1
  /\ \A s \in Live : ws = s

\* a step in which a socket opens, and one in which a reconnect is scheduled
Opened ==
  \E s \in SocketSlots :
    sockets[s].readyState = CONNECTING /\ sockets'[s].readyState = OPEN
Scheduled == PendingTimeouts' > PendingTimeouts

\* C39: reconnectAttempts never exceeds maxReconnectAttempts (5).  Every
\* reconnect that is scheduled counts as one attempt; once five were
\* scheduled with no successful open in between, an abnormal close
\* schedules no further one; a successful open resets reconnectAttempts
\* to 0.
C39_AttemptsBounded ==
  /\ [](reconnectAttempts <= maxReconnectAttempts)
  /\ [][ /\ reconnectAttempts' <= maxReconnectAttempts
         /\ Scheduled => reconnectAttempts' = reconnectAttempts + 1
         /\ reconnectAttempts = maxReconnectAttempts => ~Scheduled
         /\ Opened => reconnectAttempts' = 0 ]_vars

\* the fifth reconnect failed as well and no timer was set for a sixth: the
\* service has a token, no socket and no pending timer
C39_Witness ==
  /\ reconnectAttempts = maxReconnectAttempts
  /\ token # None
  /\ FreeSlots = SocketSlots
  /\ PendingTimeouts = 0

\* a step in which a WebSocket is created
Created ==
  \E s \in SocketSlots : sockets[s] = NoWebSocket /\ sockets'[s] # NoWebSocket

\* C40: from the return of disconnect() until the application calls
\* connect() again (this.token is null all that time) the service creates
\* no WebSocket, schedules no reconnect, and no ping interval is active.
C40_QuietAfterDisconnect ==
  /\ [](token = None => ActiveIntervals = 0)
  /\ [][(token = None /\ token' = None) => (~Created /\ ~Scheduled)]_vars

=============================================================================
